---------------------------- MODULE Spec2Model ----------------------------
(***************************************************************************)
(* A model of the RFM95 LoRa driver (rfm95/src/rfm95/driver.rs).           *)
(*                                                                         *)
(* The radio is a register file plus a 256 byte FIFO.  The driver talks to *)
(* it one register transaction at a time; every driver method is one       *)
(* action of the model, and records each transaction it issues in `log`.   *)
(* Numbers wider than TLC's integers (frequencies in milli-Hz) are kept as *)
(* little-endian sequences of bytes, which is also how they reach the      *)
(* registers.                                                              *)
(***************************************************************************)
EXTENDS Integers, Sequences, FiniteSets, TLC

VARIABLES
    regs,       \* the radio's register fields, by the driver's register name
    fifo,       \* the radio's packet buffer, address -> byte
    driver,     \* "none" before construction, "ready" once new() returned Ok
    debugBuild, \* the `debug` cargo feature of this build
    log,        \* what the last driver call did: pin, delay and bus events
    ret,        \* what the last driver call returned
    last,       \* history: what the last successful start_tx / set_frequency was given
    buf         \* the caller's receive buffer

vars == <<regs, fifo, driver, debugBuild, log, ret, last, buf>>

-----------------------------------------------------------------------------
(* Constants of the driver                                                 *)

REG_OPMODE_LONGRANGEMODE_LORA == 1
REG_OPMODE_ACCESSSHAREDREG_LORA == 0
REG_OPMODE_MODE_SLEEP == 0
REG_OPMODE_MODE_STANDBY == 1
REG_OPMODE_MODE_TXSINGLE == 3
REG_OPMODE_MODE_RXSINGLE == 6
HF_RSSI_OFFSET == -157
LF_RSSI_OFFSET == -164
FREQUENCY_DIVIDER_MILLIHZ == 61035
SUPPORTED_SILICON_REVISIONS == {17, 18}

\* The radio's packet buffer: one byte per 8 bit FIFO address.
RFM95_FIFO_SIZE == 256

Byte == 0..255

-----------------------------------------------------------------------------
(* The radio                                                               *)

IrqFlags == {"RegIrqFlagsTxDone", "RegIrqFlagsRxDone", "RegIrqFlagsRxTimeout",
             "RegIrqFlagsPayloadCrcError"}

IrqMasks == {"RegIrqFlagsMaskTxDoneMask", "RegIrqFlagsMaskRxDoneMask",
             "RegIrqFlagsMaskRxTimeoutMask", "RegIrqFlagsMaskPayloadCrcErrorMask"}

\* Width in bits of every register field the driver names.
FieldBits ==
    [f \in IrqFlags \cup IrqMasks |-> 1] @@
    [f \in {"RegOpModeLongRangeMode", "RegOpModeAccessSharedReg",
            "RegOpModeLowFrequencyModeOn", "RegModemConfig3LowDataRateOptimize",
            "RegModemConfig1ImplicitHeaderModeOn", "RegModemConfig2RxPayloadCrcOn",
            "RegInvertIQ"} |-> 1] @@
    [f \in {"RegOpModeMode", "RegModemConfig1CodingRate"} |-> 3] @@
    [f \in {"RegModemConfig2SpreadingFactor", "RegModemConfig1Bw"} |-> 4] @@
    [f \in {"RegModemConfig2SymbTimeout98"} |-> 2] @@
    [f \in {"RegVersion", "RegFifoAddrPtr", "RegFifoTxBaseAddr", "RegFifoRxBaseAddr",
            "RegFifoRxCurrentAddr", "RegPaConfig", "RegPayloadLength", "RegRxNbBytes",
            "RegSymbTimeoutLsb", "RegFrMsb", "RegFrMid", "RegFrLsb", "RegSyncWord",
            "RegPreambleMsb", "RegPreambleLsb", "RegPktRssiValue",
            "RegPktSnrValue"} |-> 8]

RegFields == DOMAIN FieldBits

\* The register file after the reset line was pulled low, for a chip of
\* silicon revision `rev`: standby, FSK modulation, 434 MHz, 125 kHz, SF7.
PowerOnRegs(rev) ==
    [f \in RegFields |->
        CASE f = "RegVersion" -> rev
          [] f = "RegOpModeMode" -> REG_OPMODE_MODE_STANDBY
          [] f = "RegOpModeLowFrequencyModeOn" -> 1
          [] f = "RegModemConfig2SpreadingFactor" -> 7
          [] f = "RegModemConfig1Bw" -> 7
          [] f = "RegModemConfig1CodingRate" -> 1
          [] f = "RegFrMsb" -> 108
          [] f = "RegFrMid" -> 128
          [] f = "RegFifoTxBaseAddr" -> 128
          [] f = "RegPaConfig" -> 79
          [] f = "RegPayloadLength" -> 1
          [] f = "RegSymbTimeoutLsb" -> 100
          [] f = "RegSyncWord" -> 18
          [] f = "RegPreambleLsb" -> 8
          [] OTHER -> 0]

EmptyFifo == [a \in Byte |-> 0]

\* What a write of `v` to field `f` leaves in the register file.  An
\* interrupt flag is cleared by writing 1 to it and kept by writing 0; the
\* chip revision is read-only; the modulation bit can only be changed while
\* the chip sleeps; writing the FIFO data port advances the address pointer.
HwWriteRegs(r, f, v) ==
    CASE f \in IrqFlags -> [r EXCEPT ![f] = IF v % 2 = 1 THEN 0 ELSE @]
      [] f = "RegVersion" -> r
      [] f = "RegOpModeLongRangeMode" ->
            IF r["RegOpModeMode"] = REG_OPMODE_MODE_SLEEP
            THEN [r EXCEPT ![f] = v % 2] ELSE r
      [] f = "RegFifo" -> [r EXCEPT !["RegFifoAddrPtr"] = (@ + 1) % 256]
      [] OTHER -> [r EXCEPT ![f] = v % (2 ^ FieldBits[f])]

HwWriteFifo(r, q, f, v) ==
    IF f = "RegFifo" THEN [q EXCEPT ![r["RegFifoAddrPtr"]] = v % 256] ELSE q

\* What a read of field `f` returns, and what it leaves in the register file.
HwReadVal(r, q, f) == IF f = "RegFifo" THEN q[r["RegFifoAddrPtr"]] ELSE r[f]

HwReadRegs(r, f) ==
    IF f = "RegFifo" THEN [r EXCEPT !["RegFifoAddrPtr"] = (@ + 1) % 256] ELSE r

-----------------------------------------------------------------------------
(* The connection: one register transaction per call.  A call in flight is *)
(* a record m of the radio's state, the events so far, the error that      *)
(* ended the call ("none" while it runs) and the number failAt of the      *)
(* event at which the bus or the reset pin fails (0: never).  Once m.err   *)
(* is set every later step leaves m alone: that is the `?` of the source.  *)

Call(r, q, k) ==
    [regs |-> r, fifo |-> q, log |-> <<>>, err |-> "none", failAt |-> k,
     kind |-> "unit", val |-> 0, buf |-> <<>>]

\* The call returning Ok(None), and Ok(Some(v)) or Ok(v)
None(m) == IF m.err # "none" THEN m ELSE [m EXCEPT !.kind = "none"]
Some(m, v) == IF m.err # "none" THEN m ELSE [m EXCEPT !.kind = "some", !.val = v]

FailsNow(m) == Len(m.log) + 1 = m.failAt

Fail(m, e) == IF m.err # "none" THEN m ELSE [m EXCEPT !.err = e]

write(m, f, v) ==
    IF m.err # "none" THEN m
    ELSE IF FailsNow(m)
         THEN [m EXCEPT !.err = "io", !.log = Append(@, <<"fail", f, 0>>)]
         ELSE [m EXCEPT !.regs = HwWriteRegs(m.regs, f, v),
                        !.fifo = HwWriteFifo(m.regs, m.fifo, f, v),
                        !.log = Append(@, <<"write", f, v>>)]

\* read(m, f) is the call after the transaction; readv(m, f) the byte read.
read(m, f) ==
    IF m.err # "none" THEN m
    ELSE IF FailsNow(m)
         THEN [m EXCEPT !.err = "io", !.log = Append(@, <<"fail", f, 0>>)]
         ELSE [m EXCEPT !.regs = HwReadRegs(m.regs, f),
                        !.log = Append(@, <<"read", f, HwReadVal(m.regs, m.fifo, f)>>)]

readv(m, f) == HwReadVal(m.regs, m.fifo, f)

-----------------------------------------------------------------------------
(* Construction                                                            *)

\* The reset pin and the timer.  Pulling the line low resets the registers.
set_low(m) ==
    IF m.err # "none" THEN m
    ELSE IF FailsNow(m)
         THEN [m EXCEPT !.err = "io", !.log = Append(@, <<"fail", "reset", 0>>)]
         ELSE [m EXCEPT !.regs = PowerOnRegs(m.regs["RegVersion"]),
                        !.log = Append(@, <<"reset", "low", 0>>)]

set_high(m) ==
    IF m.err # "none" THEN m
    ELSE IF FailsNow(m)
         THEN [m EXCEPT !.err = "io", !.log = Append(@, <<"fail", "reset", 0>>)]
         ELSE [m EXCEPT !.log = Append(@, <<"reset", "high", 0>>)]

delay_ms(m, ms) ==
    IF m.err # "none" THEN m ELSE [m EXCEPT !.log = Append(@, <<"delay", "ms", ms>>)]

reset_module(m) == delay_ms(set_high(delay_ms(set_low(m), 1)), 10)

\* Mutant: the revision is read but never rejected.
check_revision_lax(m, debug) == IF debug THEN m ELSE read(m, "RegVersion")

\* The revision check of a build without the `debug` feature.
check_revision(m, debug) ==
    IF debug THEN m
    ELSE LET m1 == read(m, "RegVersion")
         IN  IF m1.err = "none" /\ readv(m, "RegVersion") \notin SUPPORTED_SILICON_REVISIONS
             THEN Fail(m1, "io")
             ELSE m1

\* Mutant: the modulation bit is written before the chip is put to sleep.
setup_module_swapped(m, debug) ==
    LET m0 == check_revision(m, debug)
        m1 == write(m0, "RegOpModeLongRangeMode", REG_OPMODE_LONGRANGEMODE_LORA)
        m2 == write(m1, "RegOpModeMode", REG_OPMODE_MODE_SLEEP)
        m3 == write(m2, "RegOpModeMode", REG_OPMODE_MODE_STANDBY)
        m4 == write(m3, "RegOpModeAccessSharedReg", REG_OPMODE_ACCESSSHAREDREG_LORA)
        m5 == write(m4, "RegFifoTxBaseAddr", 0)
        m6 == write(m5, "RegFifoRxBaseAddr", 0)
    IN  write(m6, "RegPaConfig", 255)

setup_module(m, debug) ==
    LET m0 == check_revision(m, debug)
        m1 == write(m0, "RegOpModeMode", REG_OPMODE_MODE_SLEEP)
        m2 == write(m1, "RegOpModeLongRangeMode", REG_OPMODE_LONGRANGEMODE_LORA)
        m3 == write(m2, "RegOpModeMode", REG_OPMODE_MODE_STANDBY)
        m4 == write(m3, "RegOpModeAccessSharedReg", REG_OPMODE_ACCESSSHAREDREG_LORA)
        m5 == write(m4, "RegFifoTxBaseAddr", 0)
        m6 == write(m5, "RegFifoRxBaseAddr", 0)
    IN  write(m6, "RegPaConfig", 255)

new(m, debug) == setup_module(reset_module(m), debug)

\* new_from_bus: ExclusiveDevice::new pulls chip select high between the two.
select_high(m) ==
    IF m.err # "none" THEN m
    ELSE IF FailsNow(m)
         THEN [m EXCEPT !.err = "io", !.log = Append(@, <<"fail", "select", 0>>)]
         ELSE [m EXCEPT !.log = Append(@, <<"select", "high", 0>>)]

new_from_bus(m, debug) == setup_module(select_high(reset_module(m)), debug)

-----------------------------------------------------------------------------
(* Unsigned 64 bit integers as eight bytes, least significant first        *)

U64Len == 8

FromInt(x) == [i \in 1..U64Len |-> IF i <= 4 THEN (x \div (256 ^ (i - 1))) % 256 ELSE 0]

\* The value of n when it is below 2^31, and -1 when it is not.
ToInt(n) ==
    IF n[4] < 128 /\ \A i \in 5..U64Len : n[i] = 0
    THEN n[1] + 256 * n[2] + 65536 * n[3] + 16777216 * n[4]
    ELSE -1

RECURSIVE MulCarry(_, _, _, _)
MulCarry(n, k, i, carry) ==
    IF i > U64Len THEN <<>>
    ELSE LET t == n[i] * k + carry
         IN  <<t % 256>> \o MulCarry(n, k, i + 1, t \div 256)

\* n * k for a small k, wrapping at 2^64
BigMul(n, k) == MulCarry(n, k, 1, 0)

\* n + k for a small k, wrapping at 2^64
RECURSIVE AddCarry(_, _, _)
AddCarry(n, i, carry) ==
    IF i > U64Len THEN <<>>
    ELSE LET t == n[i] + carry
         IN  <<t % 256>> \o AddCarry(n, i + 1, t \div 256)

BigAdd(n, k) == AddCarry(n, 1, k)

\* The quotient of n by a small k, by long division from the top byte down
RECURSIVE DivRem(_, _, _, _)
DivRem(n, k, i, rem) ==
    IF i < 1 THEN <<>>
    ELSE LET t == rem * 256 + n[i]
         IN  DivRem(n, k, i - 1, t % k) \o <<t \div k>>

BigDiv(n, k) == DivRem(n, k, U64Len, 0)

RECURSIVE LessFrom(_, _, _)
LessFrom(a, b, i) ==
    IF i < 1 THEN FALSE
    ELSE IF a[i] # b[i] THEN a[i] < b[i]
    ELSE LessFrom(a, b, i - 1)

BigLess(a, b) == LessFrom(a, b, U64Len)

\* a - b for a >= b
RECURSIVE SubBorrow(_, _, _, _)
SubBorrow(a, b, i, borrow) ==
    IF i > U64Len THEN <<>>
    ELSE LET t == a[i] - b[i] - borrow
         IN  <<t % 256>> \o SubBorrow(a, b, i + 1, IF t < 0 THEN 1 ELSE 0)

BigSub(a, b) == SubBorrow(a, b, 1, 0)

\* mhz * 1,000,000 + hz as a u32 frequency in Hz (the value of Frequency::hz)
Hz(mhz, hz) == BigAdd(BigMul(FromInt(mhz), 1000000), hz)

HIGH_FREQUENCY_THRESHOLD == Hz(652, 0)

-----------------------------------------------------------------------------
(* The parameter types and the airtime of a symbol                         *)

\* A spreading factor is its number; a bandwidth is its register code.
SpreadingFactor == 7..12
Bandwidth == 0..9

\* A tenth of the bandwidth in Hz: 7.8, 10.4, 15.6, 20.8, 31.25, 41.7, 62.5,
\* 125, 250 and 500 kHz.
BandwidthHz10 == <<780, 1040, 1560, 2080, 3125, 4170, 6250, 12500, 25000, 50000>>

\* A Duration is whole seconds, whole microseconds of the second and the
\* nanoseconds of the microsecond.
Duration(s, us, ns) == [secs |-> s, micros |-> us, nanos |-> ns]

\* 2^SF / BW seconds, to the nanosecond
symbol_airtime(sf, bw) ==
    LET num == (2 ^ sf) * 100000
        h   == BandwidthHz10[bw + 1]
    IN  Duration(0, num \div h, ((num % h) * 1000) \div h)

\* Low data rate optimisation is needed when a symbol lasts longer than 16 ms
needs_ldo(sf, bw) == symbol_airtime(sf, bw).micros >= 16000 /\
                     symbol_airtime(sf, bw) # Duration(0, 16000, 0)

\* ceil(num / den) for num >= 0 and den > 0
ceildiv(num, den) == (num \div den) + (IF num % den = 0 THEN 0 ELSE 1)

\* Duration::saturating_mul: the product of d and k; a product of a symbol's
\* airtime (below one second) is far below Duration::MAX and never saturates.
saturating_mul(d, k) ==
    LET ns == d.nanos * k
        us == d.micros * k + ns \div 1000
    IN  Duration(d.secs * k + us \div 1000000, us % 1000000, ns % 1000)

\* Whether Duration::as_micros fits an i32, and its value when it does
FitsI32(d) == d.secs < 2147 \/ (d.secs = 2147 /\ d.micros <= 483647)
as_micros(d) == d.secs * 1000000 + d.micros

-----------------------------------------------------------------------------
(* Parameter access                                                        *)

\* A getter is a pair: the call after its transactions, and the value read.
spreading_factor(m) ==
    LET m1 == read(m, "RegModemConfig2SpreadingFactor")
    IN  IF m1.err = "none" /\ readv(m, "RegModemConfig2SpreadingFactor") \notin SpreadingFactor
        THEN Fail(m1, "io") ELSE m1

spreading_factor_v(m) == readv(m, "RegModemConfig2SpreadingFactor")

bandwidth(m) ==
    LET m1 == read(m, "RegModemConfig1Bw")
    IN  IF m1.err = "none" /\ readv(m, "RegModemConfig1Bw") \notin Bandwidth
        THEN Fail(m1, "io") ELSE m1

bandwidth_v(m) == readv(m, "RegModemConfig1Bw")

\* Mutant: the setter writes its own register before it reads the partner.
set_spreading_factor_write_first(m, sf) ==
    LET m1  == write(m, "RegModemConfig2SpreadingFactor", sf)
        m2  == bandwidth(m1)
        ldo == IF m2.err = "none" /\ needs_ldo(sf, bandwidth_v(m1)) THEN 1 ELSE 0
    IN  write(m2, "RegModemConfig3LowDataRateOptimize", ldo)

set_spreading_factor(m, sf) ==
    LET m1  == bandwidth(m)
        ldo == IF m1.err = "none" /\ needs_ldo(sf, bandwidth_v(m)) THEN 1 ELSE 0
        m2  == write(m1, "RegModemConfig2SpreadingFactor", sf)
    IN  write(m2, "RegModemConfig3LowDataRateOptimize", ldo)

\* set_bandwidth leaving the LDO bit as it finds it
set_bandwidth_keeps_ldo(m, bw) ==
    LET m1  == spreading_factor(m)
        m2  == write(m1, "RegModemConfig1Bw", bw)
    IN  write(m2, "RegModemConfig3LowDataRateOptimize",
              m.regs["RegModemConfig3LowDataRateOptimize"])

set_bandwidth(m, bw) ==
    LET m1  == spreading_factor(m)
        ldo == IF m1.err = "none" /\ needs_ldo(spreading_factor_v(m), bw) THEN 1 ELSE 0
        m2  == write(m1, "RegModemConfig1Bw", bw)
    IN  write(m2, "RegModemConfig3LowDataRateOptimize", ldo)

set_coding_rate(m, cr) == write(m, "RegModemConfig1CodingRate", cr)
set_polarity(m, p) == write(m, "RegInvertIQ", p)
set_header_mode(m, h) == write(m, "RegModemConfig1ImplicitHeaderModeOn", h)
set_crc_mode(m, c) == write(m, "RegModemConfig2RxPayloadCrcOn", c)
set_sync_word(m, w) == write(m, "RegSyncWord", w)

set_preamble_len(m, len) ==
    write(write(m, "RegPreambleMsb", len \div 256), "RegPreambleLsb", len % 256)

\* frequency(): the call after its three reads, and the u32 it returns
frequency(m) == read(read(read(m, "RegFrMsb"), "RegFrMid"), "RegFrLsb")

\* frequency() rounding the read-back to the nearest Hz
frequency_v_nearest(m) ==
    LET frequency_raw == [i \in 1..U64Len |->
                            CASE i = 1 -> m.regs["RegFrLsb"]
                              [] i = 2 -> m.regs["RegFrMid"]
                              [] i = 3 -> m.regs["RegFrMsb"]
                              [] OTHER -> 0]
        frequency_khz == BigAdd(BigMul(frequency_raw, FREQUENCY_DIVIDER_MILLIHZ), 500)
        hz == BigDiv(frequency_khz, 1000)
    IN  [i \in 1..U64Len |-> IF i <= 4 THEN hz[i] ELSE 0]

frequency_v(m) ==
    LET frequency_raw == [i \in 1..U64Len |->
                            CASE i = 1 -> m.regs["RegFrLsb"]
                              [] i = 2 -> m.regs["RegFrMid"]
                              [] i = 3 -> m.regs["RegFrMsb"]
                              [] OTHER -> 0]
        frequency_khz == BigMul(frequency_raw, FREQUENCY_DIVIDER_MILLIHZ)
        hz == BigDiv(frequency_khz, 1000)
    IN  [i \in 1..U64Len |-> IF i <= 4 THEN hz[i] ELSE 0]

\* Mutant: the raw value is computed from Hz instead of milli-Hz.
set_frequency_unscaled(m, f) ==
    LET frequency_mode == IF BigLess(f, HIGH_FREQUENCY_THRESHOLD) THEN 1 ELSE 0
        m1 == write(m, "RegOpModeLowFrequencyModeOn", frequency_mode)
        raw == BigDiv(f, FREQUENCY_DIVIDER_MILLIHZ \div 1000)
        m2 == write(m1, "RegFrMsb", raw[3])
        m3 == write(m2, "RegFrMid", raw[2])
    IN  write(m3, "RegFrLsb", raw[1])

\* set_frequency taking the threshold itself for the low band
set_frequency_inclusive(m, f) ==
    LET frequency_mode == IF ~BigLess(HIGH_FREQUENCY_THRESHOLD, f) THEN 1 ELSE 0
        m1 == write(m, "RegOpModeLowFrequencyModeOn", frequency_mode)
        frequency_khz == BigMul(f, 1000)
        raw == BigDiv(frequency_khz, FREQUENCY_DIVIDER_MILLIHZ)
        m2 == write(m1, "RegFrMsb", raw[3])
        m3 == write(m2, "RegFrMid", raw[2])
    IN  write(m3, "RegFrLsb", raw[1])

set_frequency(m, f) ==
    LET frequency_mode == IF BigLess(f, HIGH_FREQUENCY_THRESHOLD) THEN 1 ELSE 0
        m1 == write(m, "RegOpModeLowFrequencyModeOn", frequency_mode)
        frequency_khz == BigMul(f, 1000)
        raw == BigDiv(frequency_khz, FREQUENCY_DIVIDER_MILLIHZ)
        m2 == write(m1, "RegFrMsb", raw[3])
        m3 == write(m2, "RegFrMid", raw[2])
    IN  write(m3, "RegFrLsb", raw[1])

\* Mutant: the bandwidth is applied before the spreading factor.
set_config_bw_first(m, c) ==
    LET m1 == set_bandwidth(m, c.bandwidth)
        m2 == set_spreading_factor(m1, c.spreading_factor)
        m3 == set_coding_rate(m2, c.coding_rate)
        m4 == set_polarity(m3, c.polarity)
        m5 == set_header_mode(m4, c.header_mode)
        m6 == set_crc_mode(m5, c.crc_mode)
        m7 == set_sync_word(m6, c.sync_word)
        m8 == set_preamble_len(m7, c.preamble_len)
    IN  set_frequency(m8, c.frequency)

\* A Config is a record of the nine parameters.
set_config(m, c) ==
    LET m1 == set_spreading_factor(m, c.spreading_factor)
        m2 == set_bandwidth(m1, c.bandwidth)
        m3 == set_coding_rate(m2, c.coding_rate)
        m4 == set_polarity(m3, c.polarity)
        m5 == set_header_mode(m4, c.header_mode)
        m6 == set_crc_mode(m5, c.crc_mode)
        m7 == set_sync_word(m6, c.sync_word)
        m8 == set_preamble_len(m7, c.preamble_len)
    IN  set_frequency(m8, c.frequency)

-----------------------------------------------------------------------------
(* Transmit                                                                *)

\* The body of the copy loop of start_tx for the byte of index `index`
tx_body(m, data, index) ==
    write(write(m, "RegFifoAddrPtr", index % 256), "RegFifo", data[index + 1])

\* The iterations lo .. hi - 1 of the copy loop, in order (split in halves
\* to keep the evaluation shallow)
RECURSIVE tx_loop(_, _, _, _)
tx_loop(m, data, lo, hi) ==
    IF hi <= lo THEN m
    ELSE IF hi = lo + 1 THEN tx_body(m, data, lo)
    ELSE LET mid == (lo + hi) \div 2
             first == tx_loop(m, data, lo, mid)
         IN  IF first.err # "none" THEN first ELSE tx_loop(first, data, mid, hi)

tx_copy(m, data) == tx_loop(m, data, 0, Len(data))

\* Mutant: the length is validated only after the packet was copied.
start_tx_late_check(m, data) ==
    LET m1 == tx_copy(m, data)
        m2 == write(m1, "RegPayloadLength", Len(data) % 256)
    IN  IF ~(Len(data) >= 1 /\ Len(data) <= RFM95_FIFO_SIZE)
        THEN Fail(m2, "arg")
        ELSE LET m3 == write(m2, "RegIrqFlagsMaskTxDoneMask", 0)
                 m4 == write(m3, "RegIrqFlagsTxDone", 1)
             IN  write(m4, "RegOpModeMode", REG_OPMODE_MODE_TXSINGLE)

\* start_tx carrying on after a bus failure: the mode is switched all the same
start_tx_ignores_failure(m, data) ==
    IF ~(Len(data) >= 1 /\ Len(data) <= RFM95_FIFO_SIZE) THEN Fail(m, "arg")
    ELSE LET m1 == tx_copy(m, data)
             m2 == write(m1, "RegPayloadLength", Len(data) % 256)
             m3 == write(m2, "RegIrqFlagsMaskTxDoneMask", 0)
             m4 == write(m3, "RegIrqFlagsTxDone", 1)
             m5 == write([m4 EXCEPT !.err = "none", !.failAt = 0],
                         "RegOpModeMode", REG_OPMODE_MODE_TXSINGLE)
         IN  [m5 EXCEPT !.err = m4.err, !.failAt = m4.failAt]

start_tx(m, data) ==
    IF ~(Len(data) >= 1 /\ Len(data) <= RFM95_FIFO_SIZE)
    THEN Fail(m, "arg")
    ELSE LET m1 == tx_copy(m, data)
             m2 == write(m1, "RegPayloadLength", Len(data) % 256)
             m3 == write(m2, "RegIrqFlagsMaskTxDoneMask", 0)
             m4 == write(m3, "RegIrqFlagsTxDone", 1)
         IN  write(m4, "RegOpModeMode", REG_OPMODE_MODE_TXSINGLE)

\* complete_tx clearing the TX done flag once it has seen it
complete_tx_clears_flag(m) ==
    LET m1 == read(m, "RegIrqFlagsTxDone")
    IN  IF m1.err # "none" THEN m1
        ELSE IF readv(m, "RegIrqFlagsTxDone") # 1 THEN None(m1)
        ELSE LET m2 == read(m1, "RegPayloadLength")
             IN  Some(write(m2, "RegIrqFlagsTxDone", 1), readv(m1, "RegPayloadLength"))

complete_tx(m) ==
    LET m1 == read(m, "RegIrqFlagsTxDone")
    IN  IF m1.err # "none" THEN m1
        ELSE IF readv(m, "RegIrqFlagsTxDone") # 1 THEN None(m1)
        ELSE Some(read(m1, "RegPayloadLength"), readv(m1, "RegPayloadLength"))

-----------------------------------------------------------------------------
(* Receive                                                                 *)

rx_timeout_max(m) ==
    LET m1 == spreading_factor(m)
        m2 == bandwidth(m1)
    IN  IF m2.err # "none" THEN m2
        ELSE Some(m2, saturating_mul(symbol_airtime(spreading_factor_v(m), bandwidth_v(m)),
                                     1023))

\* start_rx with the range check made after the timeout has been written
start_rx_late_check(m, timeout) ==
    LET m1 == spreading_factor(m)
        m2 == bandwidth(m1)
    IN  IF m2.err # "none" THEN m2
        ELSE IF ~FitsI32(timeout) THEN Fail(m2, "arg")
        ELSE LET symbol_airtime_micros ==
                     as_micros(symbol_airtime(spreading_factor_v(m), bandwidth_v(m)))
                 timeout_micros == as_micros(timeout)
                 timeout_symbols == ceildiv(timeout_micros, symbol_airtime_micros)
                 w1 == write(m2, "RegModemConfig2SymbTimeout98",
                             (timeout_symbols \div 256) % 256)
                 w2 == write(w1, "RegSymbTimeoutLsb", timeout_symbols % 256)
             IN  IF ~(timeout_symbols >= 0 /\ timeout_symbols < 1024)
                 THEN Fail(w2, "arg")
                 ELSE write(write(w2, "RegFifoAddrPtr", 0),
                            "RegOpModeMode", REG_OPMODE_MODE_RXSINGLE)

\* start_rx that unmasks the three interrupts but leaves their flags alone
start_rx_keeps_flags(m, timeout) ==
    LET m1 == spreading_factor(m)
        m2 == bandwidth(m1)
    IN  IF m2.err # "none" THEN m2
        ELSE IF ~FitsI32(timeout) THEN Fail(m2, "arg")
        ELSE LET symbol_airtime_micros ==
                     as_micros(symbol_airtime(spreading_factor_v(m), bandwidth_v(m)))
                 timeout_micros == as_micros(timeout)
                 timeout_symbols == ceildiv(timeout_micros, symbol_airtime_micros)
             IN  IF ~(timeout_symbols >= 0 /\ timeout_symbols < 1024)
                 THEN Fail(m2, "arg")
                 ELSE LET w1 == write(m2, "RegModemConfig2SymbTimeout98",
                                      (timeout_symbols \div 256) % 256)
                          w2 == write(w1, "RegSymbTimeoutLsb", timeout_symbols % 256)
                          w3 == write(w2, "RegFifoAddrPtr", 0)
                          w4 == write(w3, "RegIrqFlagsMaskRxDoneMask", 0)
                          w5 == write(w4, "RegIrqFlagsMaskRxTimeoutMask", 0)
                          w6 == write(w5, "RegIrqFlagsMaskPayloadCrcErrorMask", 0)
                          w7 == write(w6, "RegIrqFlagsRxDone", 0)
                          w8 == write(w7, "RegIrqFlagsRxTimeout", 0)
                          w9 == write(w8, "RegIrqFlagsPayloadCrcError", 0)
                      IN  write(w9, "RegOpModeMode", REG_OPMODE_MODE_RXSINGLE)

start_rx(m, timeout) ==
    LET m1 == spreading_factor(m)
        m2 == bandwidth(m1)
    IN  IF m2.err # "none" THEN m2
        ELSE IF ~FitsI32(timeout) THEN Fail(m2, "arg")
        ELSE LET symbol_airtime_micros ==
                     as_micros(symbol_airtime(spreading_factor_v(m), bandwidth_v(m)))
                 timeout_micros == as_micros(timeout)
                 timeout_symbols == ceildiv(timeout_micros, symbol_airtime_micros)
             IN  IF ~(timeout_symbols >= 0 /\ timeout_symbols < 1024)
                 THEN Fail(m2, "arg")
                 ELSE LET w1 == write(m2, "RegModemConfig2SymbTimeout98",
                                      (timeout_symbols \div 256) % 256)
                          w2 == write(w1, "RegSymbTimeoutLsb", timeout_symbols % 256)
                          w3 == write(w2, "RegFifoAddrPtr", 0)
                          w4 == write(w3, "RegIrqFlagsMaskRxDoneMask", 0)
                          w5 == write(w4, "RegIrqFlagsMaskRxTimeoutMask", 0)
                          w6 == write(w5, "RegIrqFlagsMaskPayloadCrcErrorMask", 0)
                          w7 == write(w6, "RegIrqFlagsRxDone", 1)
                          w8 == write(w7, "RegIrqFlagsRxTimeout", 1)
                          w9 == write(w8, "RegIrqFlagsPayloadCrcError", 1)
                      IN  write(w9, "RegOpModeMode", REG_OPMODE_MODE_RXSINGLE)

\* The body of the copy loop of complete_rx for the slot of index `index`.
\* The checked addition aborts the call ("panic") when start + index
\* exceeds 255.
rx_body(m, start, index) ==
    IF m.err # "none" THEN m
    ELSE IF start + (index % 256) > 255 THEN Fail(m, "panic")
    ELSE LET offset == start + (index % 256)
             m1 == write(m, "RegFifoAddrPtr", offset)
             m2 == read(m1, "RegFifo")
         IN  IF m2.err # "none" THEN m2
             ELSE [m2 EXCEPT !.buf[index + 1] = readv(m1, "RegFifo")]

\* The iterations lo .. hi - 1 of the copy loop, in order
RECURSIVE rx_loop(_, _, _, _)
rx_loop(m, start, lo, hi) ==
    IF hi <= lo THEN m
    ELSE IF hi = lo + 1 THEN rx_body(m, start, lo)
    ELSE LET mid == (lo + hi) \div 2
             first == rx_loop(m, start, lo, mid)
         IN  IF first.err # "none" THEN first ELSE rx_loop(first, start, mid, hi)

rx_copy(m, start, to_copy) == rx_loop(m, start, 0, to_copy)

Min(a, b) == IF a < b THEN a ELSE b

\* complete_rx looking at RX done before the two error flags
complete_rx_done_first(m) ==
    LET m1 == read(m, "RegIrqFlagsRxDone")
    IN  IF m1.err # "none" THEN m1
        ELSE IF readv(m, "RegIrqFlagsRxDone") # 1 THEN None(m1)
        ELSE
    LET m2 == read(m1, "RegIrqFlagsRxTimeout")
    IN  IF m2.err # "none" THEN m2
        ELSE IF readv(m1, "RegIrqFlagsRxTimeout") # 0 THEN Fail(m2, "timeout")
        ELSE
    LET m3 == read(m2, "RegIrqFlagsPayloadCrcError")
    IN  IF m3.err # "none" THEN m3
        ELSE IF readv(m2, "RegIrqFlagsPayloadCrcError") # 0 THEN Fail(m3, "malformed")
        ELSE Some(m3, readv(m3, "RegRxNbBytes"))

\* complete_rx returning the number of bytes it copied
complete_rx_returns_copied(m) ==
    LET m1 == read(m, "RegIrqFlagsRxTimeout")
    IN  IF m1.err # "none" THEN m1
        ELSE IF readv(m, "RegIrqFlagsRxTimeout") # 0 THEN Fail(m1, "timeout")
        ELSE
    LET m2 == read(m1, "RegIrqFlagsPayloadCrcError")
    IN  IF m2.err # "none" THEN m2
        ELSE IF readv(m1, "RegIrqFlagsPayloadCrcError") # 0 THEN Fail(m2, "malformed")
        ELSE
    LET m3 == read(m2, "RegIrqFlagsRxDone")
    IN  IF m3.err # "none" THEN m3
        ELSE IF readv(m2, "RegIrqFlagsRxDone") # 1 THEN None(m3)
        ELSE
    LET m4 == read(m3, "RegFifoRxCurrentAddr")
        m5 == read(m4, "RegRxNbBytes")
        start == readv(m3, "RegFifoRxCurrentAddr")
        len == readv(m3, "RegRxNbBytes")
        to_copy == Min(len, Len(m.buf))
    IN  Some(rx_copy(m5, start, to_copy), to_copy)

complete_rx(m) ==
    LET m1 == read(m, "RegIrqFlagsRxTimeout")
    IN  IF m1.err # "none" THEN m1
        ELSE IF readv(m, "RegIrqFlagsRxTimeout") # 0 THEN Fail(m1, "timeout")
        ELSE
    LET m2 == read(m1, "RegIrqFlagsPayloadCrcError")
    IN  IF m2.err # "none" THEN m2
        ELSE IF readv(m1, "RegIrqFlagsPayloadCrcError") # 0 THEN Fail(m2, "malformed")
        ELSE
    LET m3 == read(m2, "RegIrqFlagsRxDone")
    IN  IF m3.err # "none" THEN m3
        ELSE IF readv(m2, "RegIrqFlagsRxDone") # 1 THEN None(m3)
        ELSE
    LET m4 == read(m3, "RegFifoRxCurrentAddr")
        m5 == read(m4, "RegRxNbBytes")
        start == readv(m3, "RegFifoRxCurrentAddr")
        len == readv(m3, "RegRxNbBytes")
        to_copy == Min(len, Len(m.buf))
    IN  Some(rx_copy(m5, start, to_copy), len)

-----------------------------------------------------------------------------
(* The state machine.  Every driver call is one step: it runs on the       *)
(* radio's current state and leaves the radio as the call left it.         *)

NoCall == [seq |-> 0, op |-> "none", arg |-> 0, failAt |-> 0, err |-> "none",
           kind |-> "unit", val |-> 0]

NoLast == [tx |-> 0, freq |-> <<>>]

Returned(op, arg, m) ==
    /\ regs' = m.regs
    /\ fifo' = m.fifo
    /\ log' = m.log
    /\ ret' = [seq |-> 1 - ret.seq, op |-> op, arg |-> arg, failAt |-> m.failAt,
               err |-> m.err, kind |-> m.kind, val |-> m.val]

\* The radio as a successful construction leaves it
ReadyRegs == new(Call(PowerOnRegs(18), EmptyFifo, 0), FALSE).regs

InitReady ==
    /\ regs = ReadyRegs
    /\ fifo = EmptyFifo
    /\ driver = "ready"
    /\ debugBuild = FALSE
    /\ log = <<>>
    /\ ret = NoCall
    /\ last = NoLast
    /\ buf = <<>>

-----------------------------------------------------------------------------
(* Construction: any chip, in whatever state an earlier run left it        *)

\* The transactions of a construction that can fail: 2 pin writes, chip
\* select, 1 read and 7 writes, among 13 events.
MaxFailNew == 13

Revisions == {0, 16, 17, 18, 19, 34, 255}

\* A radio left receiving in LoRa mode with interrupt flags raised.
DirtyRegs(rev) ==
    [PowerOnRegs(rev) EXCEPT !["RegOpModeMode"] = REG_OPMODE_MODE_RXSINGLE,
                             !["RegOpModeLongRangeMode"] = 1,
                             !["RegFifoAddrPtr"] = 200,
                             !["RegPaConfig"] = 0,
                             !["RegIrqFlagsRxTimeout"] = 1]

InitNew ==
    /\ \E rev \in Revisions : regs \in {PowerOnRegs(rev), DirtyRegs(rev)}
    /\ fifo = EmptyFifo
    /\ driver = "none"
    /\ debugBuild \in BOOLEAN
    /\ log = <<>>
    /\ ret = NoCall
    /\ last = NoLast
    /\ buf = <<>>

New(k) ==
    /\ driver = "none"
    /\ LET m == new(Call(regs, fifo, k), debugBuild)
       IN  /\ Returned("new", k, m)
           /\ driver' = IF m.err = "none" THEN "ready" ELSE "none"
    /\ last' = NoLast
    /\ UNCHANGED <<debugBuild, buf>>

NewFromBus(k) ==
    /\ driver = "none"
    /\ LET m == new_from_bus(Call(regs, fifo, k), debugBuild)
       IN  /\ Returned("new_from_bus", k, m)
           /\ driver' = IF m.err = "none" THEN "ready" ELSE "none"
    /\ last' = NoLast
    /\ UNCHANGED <<debugBuild, buf>>

NextNew == \E k \in 0..MaxFailNew : New(k) \/ NewFromBus(k)

SpecNew == InitNew /\ [][NextNew]_vars

-----------------------------------------------------------------------------
(* Configuration: the two coupled setters and set_config                   *)

\* set_config issues 17 transactions; failAt = 18 is past its end.
MaxFailCfg == 18
\* the coupled setters issue 3
MaxFailSetter == 3

SfInputs == {7, 12}
BwInputs == {0, 7, 9}

ConfigInputs ==
    {[spreading_factor |-> p[1], bandwidth |-> p[2], coding_rate |-> 4,
      polarity |-> 1, header_mode |-> 1, crc_mode |-> 1, sync_word |-> 52,
      preamble_len |-> 291, frequency |-> Hz(868, 100000)] :
        p \in {<<12, 7>>, <<7, 9>>}}

SetSpreadingFactor(sf, k) ==
    /\ driver = "ready"
    /\ Returned("set_spreading_factor", sf, set_spreading_factor(Call(regs, fifo, k), sf))
    /\ UNCHANGED <<driver, debugBuild, last, buf>>

SetBandwidth(bw, k) ==
    /\ driver = "ready"
    /\ Returned("set_bandwidth", bw, set_bandwidth(Call(regs, fifo, k), bw))
    /\ UNCHANGED <<driver, debugBuild, last, buf>>

SetConfig(c, k) ==
    /\ driver = "ready"
    /\ LET m == set_config(Call(regs, fifo, k), c)
       IN  /\ Returned("set_config", c, m)
           /\ last' = [last EXCEPT !.freq = IF m.err = "none" THEN c.frequency ELSE <<>>]
    /\ UNCHANGED <<driver, debugBuild, buf>>

NextCfg ==
    \/ \E sf \in SfInputs, k \in 0..MaxFailSetter : SetSpreadingFactor(sf, k)
    \/ \E bw \in BwInputs, k \in 0..MaxFailSetter : SetBandwidth(bw, k)
    \/ \E c \in ConfigInputs, k \in 0..MaxFailCfg : SetConfig(c, k)

SpecCfg == InitReady /\ [][NextCfg]_vars

-----------------------------------------------------------------------------
(* Frequency                                                               *)

\* The bus may fail at one of the first MaxFailFreq transactions of a call
MaxFailFreq == 1

\* Frequencies in Hz: the ends of the u32 range, the band threshold, the
\* bands of the chip, and the first frequency whose raw value needs 25 bits.
FreqInputs ==
    {Hz(0, 0), Hz(0, 61), Hz(0, 1770), Hz(137, 0), Hz(433, 0), Hz(433, 1516),
     Hz(651, 999999), Hz(652, 0), Hz(652, 61), Hz(868, 1440), Hz(868, 100000),
     Hz(915, 0), Hz(1020, 0), Hz(1023, 997378), Hz(1023, 997379), Hz(2000, 0),
     Hz(4294, 967295)}

SetFrequency(f, k) ==
    /\ driver = "ready"
    /\ LET m == set_frequency(Call(regs, fifo, k), f)
       IN  /\ Returned("set_frequency", f, m)
           /\ last' = [last EXCEPT !.freq = IF m.err = "none" THEN f ELSE <<>>]
    /\ UNCHANGED <<driver, debugBuild, buf>>

Frequency(k) ==
    /\ driver = "ready"
    /\ LET m == frequency(Call(regs, fifo, k))
       IN  Returned("frequency", 0, Some(m, frequency_v(m)))
    /\ UNCHANGED <<driver, debugBuild, last, buf>>

NextFreq ==
    \/ \E f \in FreqInputs, k \in 0..MaxFailFreq : SetFrequency(f, k)
    \/ \E k \in 0..MaxFailFreq : Frequency(k)

SpecFreq == InitReady /\ [][NextFreq]_vars

-----------------------------------------------------------------------------
(* Transmit                                                                *)

\* The bus may fail at one of the first MaxFailTx transactions of a call
MaxFailTx == 2

\* The payload of n bytes that starts with byte b and counts up in threes
Payload(n, b) == [i \in 1..n |-> (b + 3 * i) % 256]

\* Payloads of no byte, one byte, a few, and around the FIFO's capacity
TxLengths == {0, 1, 3, RFM95_FIFO_SIZE - 1, RFM95_FIFO_SIZE, RFM95_FIFO_SIZE + 1}

StartTx(data, k) ==
    /\ driver = "ready"
    /\ LET m == start_tx(Call(regs, fifo, k), data)
       IN  /\ Returned("start_tx", data, m)
           /\ last' = [last EXCEPT !.tx = CASE m.err = "none" -> Len(data)
                                            [] m.err = "arg" -> @
                                            [] OTHER -> 0]
    /\ UNCHANGED <<driver, debugBuild, buf>>

CompleteTx(k) ==
    /\ driver = "ready"
    /\ Returned("complete_tx", 0, complete_tx(Call(regs, fifo, k)))
    /\ UNCHANGED <<driver, debugBuild, last, buf>>

\* The radio finishes the transmission: it raises TX done and falls back
\* to standby.
HwTxDone ==
    /\ regs["RegOpModeMode"] = REG_OPMODE_MODE_TXSINGLE
    /\ regs' = [regs EXCEPT !["RegIrqFlagsTxDone"] = 1,
                            !["RegOpModeMode"] = REG_OPMODE_MODE_STANDBY]
    /\ UNCHANGED <<fifo, driver, debugBuild, log, ret, last, buf>>

NextTx ==
    \/ \E n \in TxLengths, k \in 0..MaxFailTx : StartTx(Payload(n, 7), k)
    \/ \E k \in 0..MaxFailTx : CompleteTx(k)
    \/ HwTxDone

SpecTx == InitReady /\ [][NextTx]_vars

-----------------------------------------------------------------------------
(* Receive: arming the receiver                                            *)

\* bus failures injected into start_rx and rx_timeout_max: the two
\* configuration reads, then the first write
MaxFailRx == 3

\* d plus n nanoseconds, for -10^9 < n < 10^9
DurationPlus(d, n) ==
    LET sub == d.micros * 1000 + d.nanos + n
        s   == IF sub < 0 THEN d.secs - 1
               ELSE IF sub >= 10 ^ 9 THEN d.secs + 1 ELSE d.secs
        r   == (sub + 10 ^ 9) % (10 ^ 9)
    IN  Duration(s, r \div 1000, r % 1000)

DurationLess(a, b) ==
    \/ a.secs < b.secs
    \/ a.secs = b.secs /\ a.micros < b.micros
    \/ a.secs = b.secs /\ a.micros = b.micros /\ a.nanos < b.nanos

\* Timeouts given whatever the configuration: none, the last and the first
\* around the i32 limit of the microsecond count
RxTimeouts == {Duration(0, 0, 0), Duration(2147, 483647, 0), Duration(2147, 483648, 0)}

\* Timeouts given relative to the value rx_timeout_max just returned, in
\* nanoseconds
RxMaxDeltas == {-1000, 0, 1, 999, 1000}

RxTimeoutMax(k) ==
    /\ driver = "ready"
    /\ Returned("rx_timeout_max", 0, rx_timeout_max(Call(regs, fifo, k)))
    /\ UNCHANGED <<driver, debugBuild, last, buf>>

StartRx(timeout, k) ==
    /\ driver = "ready"
    /\ Returned("start_rx", timeout, start_rx(Call(regs, fifo, k), timeout))
    /\ UNCHANGED <<driver, debugBuild, last, buf>>

NextRx ==
    \/ \E sf \in SpreadingFactor : SetSpreadingFactor(sf, 0)
    \/ \E bw \in Bandwidth : SetBandwidth(bw, 0)
    \/ \E k \in 0..MaxFailRx : RxTimeoutMax(k)
    \/ \E t \in RxTimeouts, k \in 0..MaxFailRx : StartRx(t, k)
    \/ \E d \in RxMaxDeltas, k \in 0..MaxFailRx :
          /\ ret.op = "rx_timeout_max"
          /\ ret.err = "none"
          /\ StartRx(DurationPlus(ret.val, d), k)

SpecRx == InitReady /\ [][NextRx]_vars

-----------------------------------------------------------------------------
(* Receive: polling for the packet                                         *)

\* bus failures injected into complete_rx: five register reads, then the
\* copy loop
MaxFailRxDone == 7

\* Lengths of the caller's buffer, and what it holds before the call
BufLens == {0, 1, 4, 256}
CallerBuf(n) == [i \in 1..n |-> 170]

\* Where the radio put the packet, and how long it is
RxStarts == {0, 254}
RxLens == {0, 1, 3, 255}

\* The byte the radio receives into the FIFO address a
RxBytes(a) == (9 + 5 * a) % 256

\* A constructed driver whose FIFO earlier receptions have filled
InitRxDone ==
    /\ regs = ReadyRegs
    /\ fifo = [a \in Byte |-> RxBytes(a)]
    /\ driver = "ready"
    /\ debugBuild = FALSE
    /\ log = <<>>
    /\ ret = NoCall
    /\ last = NoLast
    /\ buf = <<>>

\* The radio leaves single reception: it raises some of RX timeout, payload
\* CRC error and RX done, and falls back to standby.  A flag stays set until
\* the driver clears it.  With RX done the radio has put `len` bytes at
\* `start` of the FIFO.
HwRxEvent(t, c, d, start, len) ==
    /\ regs["RegOpModeMode"] = REG_OPMODE_MODE_RXSINGLE
    /\ t + c + d > 0
    /\ d = 0 => (start = 0 /\ len = 0)
    /\ regs' = [regs EXCEPT !["RegIrqFlagsRxTimeout"] = IF t = 1 THEN 1 ELSE @,
                            !["RegIrqFlagsPayloadCrcError"] = IF c = 1 THEN 1 ELSE @,
                            !["RegIrqFlagsRxDone"] = IF d = 1 THEN 1 ELSE @,
                            !["RegFifoRxCurrentAddr"] = start,
                            !["RegRxNbBytes"] = len,
                            !["RegOpModeMode"] = REG_OPMODE_MODE_STANDBY]
    /\ fifo' = [a \in Byte |-> IF (a + 256 - start) % 256 < len
                                THEN RxBytes(a) ELSE fifo[a]]
    /\ UNCHANGED <<driver, debugBuild, log, ret, last, buf>>

CompleteRx(n, k) ==
    /\ driver = "ready"
    /\ LET m == complete_rx([Call(regs, fifo, k) EXCEPT !.buf = CallerBuf(n)])
       IN  /\ Returned("complete_rx", n, m)
           /\ buf' = m.buf
    /\ UNCHANGED <<driver, debugBuild, last>>

NextRxDone ==
    \/ StartRx(Duration(0, 5000, 0), 0)
    \/ \E t \in 0..1, c \in 0..1, d \in 0..1, start \in RxStarts, len \in RxLens :
          HwRxEvent(t, c, d, start, len)
    \/ \E n \in BufLens, k \in 0..MaxFailRxDone : CompleteRx(n, k)

SpecRxDone == InitRxDone /\ [][NextRxDone]_vars

-----------------------------------------------------------------------------
(* Signal quality of the last packet                                       *)

\* get_packet_rssi reading the register as a signed byte
get_packet_rssi_signed(m) ==
    LET m1 == read(m, "RegPktRssiValue")
        rssi_raw == readv(m, "RegPktRssiValue")
        m2 == frequency(m1)
        rssi_offset == IF BigLess(frequency_v(m1), HIGH_FREQUENCY_THRESHOLD)
                       THEN LF_RSSI_OFFSET ELSE HF_RSSI_OFFSET
    IN  Some(m2, (IF rssi_raw >= 128 THEN rssi_raw - 256 ELSE rssi_raw) + rssi_offset)

\* The u8 read is widened to i16 (0..255) and the offset of the band of
\* frequency() is added.
get_packet_rssi(m) ==
    LET m1 == read(m, "RegPktRssiValue")
        rssi_raw == readv(m, "RegPktRssiValue")
        m2 == frequency(m1)
        rssi_offset == IF BigLess(frequency_v(m1), HIGH_FREQUENCY_THRESHOLD)
                       THEN LF_RSSI_OFFSET ELSE HF_RSSI_OFFSET
    IN  Some(m2, rssi_raw + rssi_offset)

\* The u8 as an i8
as_i8(b) == IF b >= 128 THEN b - 256 ELSE b

\* Division of integers as Rust does it: the quotient is rounded towards 0
div_trunc(a, b) == IF a < 0 THEN -((-a) \div b) ELSE a \div b

\* get_packet_snr rounding the quotient down
get_packet_snr_floor(m) ==
    Some(read(m, "RegPktSnrValue"), as_i8(readv(m, "RegPktSnrValue")) \div 4)

get_packet_snr(m) ==
    Some(read(m, "RegPktSnrValue"), div_trunc(as_i8(readv(m, "RegPktSnrValue")), 4))

\* get_packet_strength adding the ratio whatever its sign
get_packet_strength_adds_snr(m) ==
    LET m1 == get_packet_snr(m)
        m2 == get_packet_rssi(m1)
    IN  IF m2.err # "none" THEN m2
        ELSE Some(m2, m2.val + m1.val)

get_packet_strength(m) ==
    LET m1 == get_packet_snr(m)
        m2 == get_packet_rssi(m1)
    IN  IF m2.err # "none" THEN m2
        ELSE Some(m2, m2.val + Min(m1.val, 0))

\* bus failures injected into the three calls
MaxFailSig == 1

\* The RSSI and SNR bytes of the last packet: every RSSI byte, every SNR
\* byte, and the extremes of both together
QualityPairs ==
    {<<r, 231>> : r \in Byte} \cup {<<77, s>> : s \in Byte} \cup
    {<<0, 128>>, <<0, 127>>, <<255, 128>>, <<255, 127>>}

\* Frequencies in both bands, at the threshold and next to it
SigFreqs == {Hz(433, 0), Hz(651, 999999), Hz(652, 0), Hz(652, 61), Hz(868, 100000)}

\* A constructed driver after the radio received a packet
InitSig ==
    /\ \E p \in QualityPairs :
          regs = [ReadyRegs EXCEPT !["RegPktRssiValue"] = p[1],
                                   !["RegPktSnrValue"] = p[2]]
    /\ fifo = EmptyFifo
    /\ driver = "ready"
    /\ debugBuild = FALSE
    /\ log = <<>>
    /\ ret = NoCall
    /\ last = NoLast
    /\ buf = <<>>

GetPacketRssi(k) ==
    /\ driver = "ready"
    /\ Returned("get_packet_rssi", 0, get_packet_rssi(Call(regs, fifo, k)))
    /\ UNCHANGED <<driver, debugBuild, last, buf>>

GetPacketSnr(k) ==
    /\ driver = "ready"
    /\ Returned("get_packet_snr", 0, get_packet_snr(Call(regs, fifo, k)))
    /\ UNCHANGED <<driver, debugBuild, last, buf>>

GetPacketStrength(k) ==
    /\ driver = "ready"
    /\ Returned("get_packet_strength", 0, get_packet_strength(Call(regs, fifo, k)))
    /\ UNCHANGED <<driver, debugBuild, last, buf>>

NextSig ==
    \/ \E f \in SigFreqs : SetFrequency(f, 0)
    \/ \E k \in 0..MaxFailSig : GetPacketRssi(k)
    \/ \E k \in 0..MaxFailSig : GetPacketSnr(k)
    \/ \E k \in 0..MaxFailSig : GetPacketStrength(k)

SpecSig == InitSig /\ [][NextSig]_vars

-----------------------------------------------------------------------------
(* Bus failures at any transaction of an operation                         *)

\* start_rx issues 12 transactions and start_tx of one byte 6; the polls
\* and get_packet_strength issue 7 at most
MaxFailOp == 12

NextFail ==
    \/ \E k \in 0..MaxFailOp : StartTx(Payload(1, 7), k)
    \/ \E k \in 0..MaxFailTx : CompleteTx(k)
    \/ HwTxDone
    \/ \E k \in 0..MaxFailOp : StartRx(Duration(0, 5000, 0), k)
    \/ \E d \in 0..1 : HwRxEvent(1 - d, 0, d, 0, d)
    \/ \E k \in 0..MaxFailRxDone : CompleteRx(1, k)
    \/ \E k \in 0..MaxFailRxDone : GetPacketStrength(k)

SpecFail == InitReady /\ [][NextFail]_vars

-----------------------------------------------------------------------------
(* Receive: a new attempt after one that failed                            *)

RxFlags == <<"RegIrqFlagsRxDone", "RegIrqFlagsRxTimeout", "RegIrqFlagsPayloadCrcError">>
RxMasks == <<"RegIrqFlagsMaskRxDoneMask", "RegIrqFlagsMaskRxTimeoutMask",
             "RegIrqFlagsMaskPayloadCrcErrorMask">>

\* Three bits, one per flag or mask
Bits3 == [1..3 -> 0..1]

\* A constructed driver after an attempt that the radio ended: some of the
\* three flags are still set, the interrupts masked or not
InitRetry ==
    /\ \E fl \in Bits3, mk \in Bits3 :
          /\ \E i \in 1..3 : fl[i] = 1
          /\ regs = [f \in RegFields |->
                        IF \E i \in 1..3 : f = RxFlags[i]
                        THEN fl[CHOOSE i \in 1..3 : f = RxFlags[i]]
                        ELSE IF \E i \in 1..3 : f = RxMasks[i]
                        THEN mk[CHOOSE i \in 1..3 : f = RxMasks[i]]
                        ELSE ReadyRegs[f]]
    /\ fifo = [a \in Byte |-> RxBytes(a)]
    /\ driver = "ready"
    /\ debugBuild = FALSE
    /\ log = <<>>
    /\ ret = NoCall
    /\ last = NoLast
    /\ buf = <<>>

NextRetry ==
    \/ \E k \in 0..MaxFailOp : StartRx(Duration(0, 5000, 0), k)
    \/ \E t \in 0..1, c \in 0..1, d \in 0..1 : HwRxEvent(t, c, d, 0, d)
    \/ CompleteRx(1, 0)

SpecRetry == InitRetry /\ [][NextRetry]_vars

-----------------------------------------------------------------------------
(* Properties of construction                                              *)

IsNew == ret.op \in {"new", "new_from_bus"}

Writes(l) == {i \in 1..Len(l) : l[i][1] = "write"}
WritesTo(l, f) == {i \in 1..Len(l) : l[i][1] = "write" /\ l[i][2] = f}

ResetPulse == <<<<"reset", "low", 0>>, <<"delay", "ms", 1>>,
                <<"reset", "high", 0>>, <<"delay", "ms", 10>>>>

SelectStep == IF ret.op = "new_from_bus" THEN <<<<"select", "high", 0>>>> ELSE <<>>

RevisionStep ==
    IF debugBuild THEN <<>> ELSE <<<<"read", "RegVersion", regs["RegVersion"]>>>>

SetupWrites == <<<<"write", "RegOpModeMode", 0>>,
                 <<"write", "RegOpModeLongRangeMode", 1>>,
                 <<"write", "RegOpModeMode", 1>>,
                 <<"write", "RegOpModeAccessSharedReg", 0>>,
                 <<"write", "RegFifoTxBaseAddr", 0>>,
                 <<"write", "RegFifoRxBaseAddr", 0>>,
                 <<"write", "RegPaConfig", 255>>>>

\* C6: a successful construction performs, in this order and with nothing
\* else in between: reset low, 1 ms, reset high, 10 ms, the revision read
\* (of a build that checks it), sleep, LoRa bit, standby, shared register
\* access bit, TX base 0, RX base 0, PA config 0xFF.  The LoRa bit is
\* written only while the last mode written is sleep, the shared register
\* bit only after the LoRa bit, and the radio is left in standby with LoRa on.
C6_ConstructionOrder ==
    (IsNew /\ ret.err = "none") =>
        /\ log = ResetPulse \o SelectStep \o RevisionStep \o SetupWrites
        /\ \A i \in WritesTo(log, "RegOpModeLongRangeMode") :
              \E j \in WritesTo(log, "RegOpModeMode") :
                  /\ j < i
                  /\ log[j][3] = 0
                  /\ \A n \in WritesTo(log, "RegOpModeMode") : ~(j < n /\ n < i)
        /\ \A i \in WritesTo(log, "RegOpModeAccessSharedReg") :
              \E j \in WritesTo(log, "RegOpModeLongRangeMode") : j < i /\ log[j][3] = 1
        /\ regs["RegOpModeMode"] = 1
        /\ regs["RegOpModeLongRangeMode"] = 1
        /\ driver = "ready"

C6_Witness ==
    /\ ret.op = "new_from_bus"
    /\ ret.err = "none"
    /\ ~debugBuild
    /\ driver = "ready"
    /\ Len(log) = 13

\* C7: in a build that checks the revision, a chip whose revision is not
\* 0x11 or 0x12 makes construction fail with an I/O error: no driver is
\* returned and no register was written; unless the bus itself failed
\* earlier, the call ends with the revision read, after the reset pulse.
C7_UnsupportedRevision ==
    (IsNew /\ ~debugBuild /\ regs["RegVersion"] \notin {17, 18}) =>
        /\ ret.err = "io"
        /\ driver = "none"
        /\ Writes(log) = {}
        /\ (\A i \in 1..Len(log) : log[i][1] # "fail") =>
              log = ResetPulse \o SelectStep \o
                    <<<<"read", "RegVersion", regs["RegVersion"]>>>>

C7_Witness ==
    /\ ret.op = "new"
    /\ ~debugBuild
    /\ regs["RegVersion"] = 34
    /\ ret.err = "io"
    /\ Len(log) = 5
    /\ log[5] = <<"read", "RegVersion", 34>>

-----------------------------------------------------------------------------
(* Properties of configuration                                             *)

\* The registers written by the entries of l that are writes, in order
RECURSIVE WriteTargets(_)
WriteTargets(l) ==
    IF l = <<>> THEN <<>>
    ELSE (IF Head(l)[1] = "write" THEN <<Head(l)[2]>> ELSE <<>>) \o WriteTargets(Tail(l))

IsPrefix(a, b) == Len(a) <= Len(b) /\ a = SubSeq(b, 1, Len(a))

\* The registers of the nine parameters in the order of the claim:
\* spreading factor (with its LDO bit), bandwidth (with its LDO bit), coding
\* rate, polarity, header mode, CRC mode, sync word, preamble length, frequency.
ConfigOrder ==
    <<"RegModemConfig2SpreadingFactor", "RegModemConfig3LowDataRateOptimize",
      "RegModemConfig1Bw", "RegModemConfig3LowDataRateOptimize",
      "RegModemConfig1CodingRate", "RegInvertIQ",
      "RegModemConfig1ImplicitHeaderModeOn", "RegModemConfig2RxPayloadCrcOn",
      "RegSyncWord", "RegPreambleMsb", "RegPreambleLsb",
      "RegOpModeLowFrequencyModeOn", "RegFrMsb", "RegFrMid", "RegFrLsb">>

\* C8: set_config writes the parameters in the order spreading factor,
\* bandwidth, coding rate, polarity, header mode, CRC mode, sync word,
\* preamble length, frequency; when a transaction fails the writes made are
\* a prefix of that order, so no later parameter is written.
C8_ConfigOrder ==
    (ret.op = "set_config") =>
        /\ IsPrefix(WriteTargets(log), ConfigOrder)
        /\ (ret.err = "none") <=> (WriteTargets(log) = ConfigOrder)
        /\ (ret.err # "none") => log[Len(log)][1] = "fail"
        /\ \A i \in 1..Len(log) :
              /\ (log[i][1] = "write" /\ log[i][2] = "RegModemConfig2SpreadingFactor")
                    => log[i][3] = ret.arg.spreading_factor
              /\ (log[i][1] = "write" /\ log[i][2] = "RegModemConfig1Bw")
                    => log[i][3] = ret.arg.bandwidth

C8_Witness ==
    /\ ret.op = "set_config"
    /\ ret.err = "io"
    /\ WriteTargets(log) = SubSeq(ConfigOrder, 1, 3)

\* C9 as claimed: the setter writes its own register first, then reads the
\* other parameter, then writes the LDO bit.
C9_WriteThenRead ==
    /\ (ret.op = "set_spreading_factor" /\ ret.err = "none") =>
          /\ Len(log) = 3
          /\ log[1] = <<"write", "RegModemConfig2SpreadingFactor", ret.arg>>
          /\ log[2][1] = "read" /\ log[2][2] = "RegModemConfig1Bw"
          /\ log[3][1] = "write" /\ log[3][2] = "RegModemConfig3LowDataRateOptimize"
    /\ (ret.op = "set_bandwidth" /\ ret.err = "none") =>
          /\ Len(log) = 3
          /\ log[1] = <<"write", "RegModemConfig1Bw", ret.arg>>
          /\ log[2][1] = "read" /\ log[2][2] = "RegModemConfig2SpreadingFactor"
          /\ log[3][1] = "write" /\ log[3][2] = "RegModemConfig3LowDataRateOptimize"

\* C9 amended: the setter reads the other parameter first, then writes its
\* own register, then writes the LDO bit computed from the new own value and
\* the partner value it read.
C9_ReadThenWrite ==
    /\ (ret.op = "set_spreading_factor" /\ ret.err = "none") =>
          /\ Len(log) = 3
          /\ log[1][1] = "read" /\ log[1][2] = "RegModemConfig1Bw"
          /\ log[2] = <<"write", "RegModemConfig2SpreadingFactor", ret.arg>>
          /\ log[3] = <<"write", "RegModemConfig3LowDataRateOptimize",
                        IF needs_ldo(ret.arg, log[1][3]) THEN 1 ELSE 0>>
    /\ (ret.op = "set_bandwidth" /\ ret.err = "none") =>
          /\ Len(log) = 3
          /\ log[1][1] = "read" /\ log[1][2] = "RegModemConfig2SpreadingFactor"
          /\ log[2] = <<"write", "RegModemConfig1Bw", ret.arg>>
          /\ log[3] = <<"write", "RegModemConfig3LowDataRateOptimize",
                        IF needs_ldo(log[1][3], ret.arg) THEN 1 ELSE 0>>

C9_Witness ==
    /\ ret.op = "set_spreading_factor"
    /\ ret.err = "none"
    /\ ret.arg = 12
    /\ log[1] = <<"read", "RegModemConfig1Bw", 7>>
    /\ log[3] = <<"write", "RegModemConfig3LowDataRateOptimize", 1>>

-----------------------------------------------------------------------------
(* Properties of the frequency conversion                                  *)

\* frequency() returned g right after set_frequency(f) succeeded
ReadBack == ret.op = "frequency" /\ ret.err = "none" /\ last.freq # <<>>

AbsDiff(a, b) == IF BigLess(a, b) THEN BigSub(b, a) ELSE BigSub(a, b)

\* The 24 bit raw value (f * 1000) / 61035 as the three register bytes hold it
RawOf(f) == BigDiv(BigMul(f, 1000), 61035)

RawInRegs ==
    [i \in 1..U64Len |-> CASE i = 1 -> regs["RegFrLsb"]
                           [] i = 2 -> regs["RegFrMid"]
                           [] i = 3 -> regs["RegFrMsb"]
                           [] OTHER -> 0]

\* The first frequency whose raw value no longer fits 24 bits
RawOverflowHz == Hz(1023, 997379)

\* C10 as claimed: for every u32 frequency f the value g read back differs
\* from f by less than one crystal step: |g - f| * 1000 < 61035.
C10_WithinOneStep ==
    ReadBack => BigLess(BigMul(AbsDiff(ret.val, last.freq), 1000), FromInt(61035))

\* C10 amended: for every f below 1,023,997,379 Hz (raw value below 2^24)
\* the registers hold (f * 1000) / 61035 big-endian, the read-back g is
\* (raw * 61035) / 1000, and 0 <= f - g <= 62 Hz.
C10_RoundTrip ==
    (ReadBack /\ BigLess(last.freq, RawOverflowHz)) =>
        /\ RawInRegs = RawOf(last.freq)
        /\ ret.val = BigDiv(BigMul(RawInRegs, 61035), 1000)
        /\ ~BigLess(last.freq, ret.val)
        /\ ToInt(BigSub(last.freq, ret.val)) \in 0..62

C10_Witness ==
    /\ ReadBack
    /\ last.freq = Hz(868, 1440)
    /\ ret.val = Hz(868, 1378)

-----------------------------------------------------------------------------
(* Properties of transmission                                              *)

\* A step that is a driver call returning
IsCall == ret'.seq # ret.seq

\* C2: start_tx with no data, or with more than RFM95_FIFO_SIZE bytes,
\* returns an argument error without a single bus transaction; the register
\* file and the FIFO are as they were before the call.
C2_TxRejected ==
    [][(IsCall /\ ret'.op = "start_tx" /\
        (Len(ret'.arg) = 0 \/ Len(ret'.arg) > RFM95_FIFO_SIZE))
          => /\ ret'.err = "arg"
             /\ log' = <<>>
             /\ regs' = regs
             /\ fifo' = fifo]_vars

C2_Witness ==
    /\ ret.op = "start_tx"
    /\ Len(ret.arg) = RFM95_FIFO_SIZE + 1
    /\ ret.err = "arg"
    /\ log = <<>>
    /\ regs["RegIrqFlagsTxDone"] = 1

\* The TX done flag as the last complete_tx call read it
PolledTxDone == log[1][3]

-----------------------------------------------------------------------------
(* Receive: what complete_rx returns for each combination of flags        *)

\* C1: whatever the three flags hold, complete_rx returns a timeout error
\* when RX timeout is set; else a malformed-message error when payload CRC
\* error is set; else Ok(None) when RX done is unset; and a byte count only
\* with RX done set and both error flags clear.  (A call whose bus fails
\* returns the bus error; the copy loop aborts when the packet would run
\* past the end of the FIFO.)
C1_RxPriority ==
    [][(IsCall /\ ret'.op = "complete_rx") =>
        LET t == regs["RegIrqFlagsRxTimeout"]
            c == regs["RegIrqFlagsPayloadCrcError"]
            d == regs["RegIrqFlagsRxDone"]
        IN  /\ ret'.failAt = 0 => ret'.err # "io"
            /\ ret'.err # "io" =>
                  /\ t = 1 => ret'.err = "timeout"
                  /\ (t = 0 /\ c = 1) => ret'.err = "malformed"
                  /\ (t = 0 /\ c = 0 /\ d = 0) =>
                        (ret'.err = "none" /\ ret'.kind = "none")
                  /\ (t = 0 /\ c = 0 /\ d = 1) =>
                        \/ /\ ret'.err = "none"
                           /\ ret'.kind = "some"
                           /\ ret'.val = regs["RegRxNbBytes"]
                        \/ ret'.err = "panic"
            /\ ret'.kind = "some" => (t = 0 /\ c = 0 /\ d = 1)]_vars

C1_Witness ==
    /\ ret.op = "complete_rx"
    /\ ret.err = "malformed"
    /\ regs["RegIrqFlagsRxTimeout"] = 0
    /\ regs["RegIrqFlagsPayloadCrcError"] = 1
    /\ regs["RegIrqFlagsRxDone"] = 1

-----------------------------------------------------------------------------
(* Receive: the timeouts start_rx takes                                    *)

\* Whether the timeout t is beyond what the configuration in r allows
TooLong(t, r) ==
    \/ ~FitsI32(t)
    \/ ceildiv(as_micros(t),
               as_micros(symbol_airtime(r["RegModemConfig2SpreadingFactor"],
                                        r["RegModemConfig1Bw"]))) >= 1024

\* C4: start_rx with a timeout whose microseconds do not fit an i32, or
\* that takes 1024 symbols or more of the configured spreading factor and
\* bandwidth, returns an argument error (the bus error, when one of its two
\* configuration reads fails) and performs no write: the register file and
\* the FIFO are as they were before the call.
C4_RxRejected ==
    [][(IsCall /\ ret'.op = "start_rx" /\ TooLong(ret'.arg, regs)) =>
          /\ ret'.err = IF ret'.failAt \in {1, 2} THEN "io" ELSE "arg"
          /\ \A i \in 1..Len(log') : log'[i][1] # "write"
          /\ regs' = regs
          /\ fifo' = fifo]_vars

C4_Witness ==
    /\ ret.op = "start_rx"
    /\ ret.err = "arg"
    /\ FitsI32(ret.arg)
    /\ TooLong(ret.arg, regs)
    /\ regs["RegOpModeMode"] = REG_OPMODE_MODE_RXSINGLE
    /\ regs["RegSymbTimeoutLsb"] = 255

\* C5: the value rx_timeout_max returns is the largest timeout start_rx
\* takes: start_rx of that value succeeds, and start_rx of any longer
\* timeout returns an argument error.
C5_MaxIsLargest ==
    [][(/\ IsCall
        /\ ret.op = "rx_timeout_max"
        /\ ret.err = "none"
        /\ ret'.op = "start_rx"
        /\ ret'.failAt = 0) =>
          /\ ret'.arg = ret.val => ret'.err = "none"
          /\ DurationLess(ret.val, ret'.arg) => ret'.err = "arg"]_vars

-----------------------------------------------------------------------------
(* Frequency: the band bit                                                 *)

\* The whole megahertz of the frequency f
MegaHz(f) == ToInt(BigDiv(f, 1000000))

\* C11: after a set_frequency(f) that succeeded, the low-frequency-mode bit
\* is 1 when f is below 652,000,000 Hz and 0 from 652,000,000 Hz up.
C11_BandBit ==
    (ret.op = "set_frequency" /\ ret.err = "none") =>
        regs["RegOpModeLowFrequencyModeOn"] = IF MegaHz(ret.arg) < 652 THEN 1 ELSE 0

C11_Witness ==
    /\ ret.op = "set_frequency"
    /\ ret.err = "none"
    /\ ret.arg = Hz(652, 0)
    /\ regs["RegOpModeLowFrequencyModeOn"] = 0

-----------------------------------------------------------------------------
(* Receive: the bytes complete_rx hands over                               *)

\* The radio reports a packet and no error
PacketReady(r) ==
    /\ r["RegIrqFlagsRxTimeout"] = 0
    /\ r["RegIrqFlagsPayloadCrcError"] = 0
    /\ r["RegIrqFlagsRxDone"] = 1

\* The bytes of the packet that fit a buffer of c bytes
Copied(r, c) == IF r["RegRxNbBytes"] < c THEN r["RegRxNbBytes"] ELSE c

C13_WrapSafe ==
    [][(/\ IsCall
        /\ ret'.op = "complete_rx"
        /\ ret'.failAt = 0
        /\ PacketReady(regs)) =>
          /\ ret'.err = "none"
          /\ \A i \in 1..Copied(regs, ret'.arg) :
                buf'[i] = fifo[(regs["RegFifoRxCurrentAddr"] + i - 1) % 256]]_vars

-----------------------------------------------------------------------------
(* Signal quality: what the three calls return                             *)

\* The frequency the registers hold, as frequency() returns it
RegsFrequency == frequency_v(Call(regs, fifo, 0))

\* The offset of the band of that frequency
BandOffset == IF MegaHz(RegsFrequency) < 652 THEN -164 ELSE -157

\* C14 as stated: get_packet_rssi returns the RSSI byte taken as a signed
\* 8-bit value plus the offset of the band of the current frequency.
C14_SignedRssi ==
    (ret.op = "get_packet_rssi" /\ ret.err = "none") =>
        ret.val = (IF regs["RegPktRssiValue"] >= 128
                   THEN regs["RegPktRssiValue"] - 256
                   ELSE regs["RegPktRssiValue"]) + BandOffset

\* C14: get_packet_rssi returns the RSSI byte taken as an unsigned value
\* 0..255 plus -164 when frequency() is below 652,000,000 Hz and plus -157
\* otherwise.
C14_UnsignedRssi ==
    (ret.op = "get_packet_rssi" /\ ret.err = "none") =>
        ret.val = regs["RegPktRssiValue"] + BandOffset

C14_Witness ==
    /\ ret.op = "get_packet_rssi"
    /\ ret.err = "none"
    /\ regs["RegPktRssiValue"] = 200
    /\ ret.val = 43

\* The SNR byte as a two's-complement number
SnrByte == IF regs["RegPktSnrValue"] >= 128 THEN regs["RegPktSnrValue"] - 256
           ELSE regs["RegPktSnrValue"]

\* C15: get_packet_snr returns the SNR byte, taken as a two's-complement
\* 8-bit value, divided by 4 and rounded towards zero.
C15_SnrTruncates ==
    (ret.op = "get_packet_snr" /\ ret.err = "none") =>
        /\ SnrByte >= 0 => (4 * ret.val <= SnrByte /\ SnrByte < 4 * ret.val + 4)
        /\ SnrByte < 0 => (4 * ret.val - 4 < SnrByte /\ SnrByte <= 4 * ret.val)

C15_Witness ==
    /\ ret.op = "get_packet_snr"
    /\ regs["RegPktSnrValue"] = 231
    /\ ret.val = -6

\* C16: get_packet_strength returns what get_packet_rssi returns plus the
\* smaller of what get_packet_snr returns and 0, and the sum fits an i16.
C16_Strength ==
    (ret.op = "get_packet_strength" /\ ret.err = "none") =>
        /\ ret.val = get_packet_rssi(Call(regs, fifo, 0)).val +
                     (IF get_packet_snr(Call(regs, fifo, 0)).val < 0
                      THEN get_packet_snr(Call(regs, fifo, 0)).val ELSE 0)
        /\ ret.val >= -32768
        /\ ret.val <= 32767

C16_Witness ==
    /\ ret.op = "get_packet_strength"
    /\ get_packet_rssi(Call(regs, fifo, 0)).val = -80
    /\ get_packet_snr(Call(regs, fifo, 0)).val = -6
    /\ ret.val = -86

\* C20: after a set_frequency that succeeded, get_packet_rssi adds the
\* low-frequency offset exactly when the low-frequency-mode bit is 1.
C20_BandAgrees ==
    (ret.op = "get_packet_rssi" /\ ret.err = "none" /\ last.freq # <<>>) =>
        ((ret.val - regs["RegPktRssiValue"] = LF_RSSI_OFFSET)
            <=> (regs["RegOpModeLowFrequencyModeOn"] = 1))

-----------------------------------------------------------------------------
(* Bus failures                                                            *)

\* C17: when a bus transaction of an operation fails, the operation returns
\* the transport error at once: the failed transaction is the last one of
\* the call, no write follows it, and a start_tx or start_rx that failed
\* has not switched the operating mode.
C17_AbortOnFailure ==
    [][IsCall =>
        /\ \A i \in 1..Len(log') :
              log'[i][1] = "fail" => (i = Len(log') /\ ret'.err = "io")
        /\ ret'.failAt \in 1..Len(log') =>
              (Len(log') = ret'.failAt /\ log'[ret'.failAt][1] = "fail")
        /\ (ret'.err = "io" /\ ret'.op \in {"start_tx", "start_rx"}) =>
              regs'["RegOpModeMode"] = regs["RegOpModeMode"]]_vars

C17_Witness ==
    /\ ret.op = "start_rx"
    /\ ret.err = "io"
    /\ Len(log) = 12
    /\ log[12] = <<"fail", "RegOpModeMode", 0>>
    /\ regs["RegIrqFlagsMaskRxDoneMask"] = 0
    /\ regs["RegOpModeMode"] # REG_OPMODE_MODE_RXSINGLE

-----------------------------------------------------------------------------
(* Configuration: the LDO bit follows the pair in the registers            *)

\* C18: after every set_spreading_factor, set_bandwidth or set_config that
\* succeeded, in any sequence, the LDO bit is needs_ldo of the spreading
\* factor and the bandwidth the registers hold: 1 for spreading factor 12
\* with 125 kHz, 0 for spreading factor 7 with 500 kHz.
C18_LdoFollows ==
    (ret.op \in {"set_spreading_factor", "set_bandwidth", "set_config"} /\ ret.err = "none")
      => LET sf  == regs["RegModemConfig2SpreadingFactor"]
             bw  == regs["RegModemConfig1Bw"]
             ldo == regs["RegModemConfig3LowDataRateOptimize"]
         IN  /\ ldo = IF needs_ldo(sf, bw) THEN 1 ELSE 0
             /\ (sf = 12 /\ bw = 7) => ldo = 1
             /\ (sf = 7 /\ bw = 9) => ldo = 0

C18_Witness ==
    /\ ret.op = "set_bandwidth"
    /\ ret.err = "none"
    /\ regs["RegModemConfig2SpreadingFactor"] = 12
    /\ regs["RegModemConfig1Bw"] = 7
    /\ regs["RegModemConfig3LowDataRateOptimize"] = 1

-----------------------------------------------------------------------------
(* Receive: stale flags do not reach the next attempt                      *)

\* The position of the first write to the field f in the log l, 0 if none
RECURSIVE FirstWrite(_, _, _)
FirstWrite(l, f, i) ==
    IF i > Len(l) THEN 0
    ELSE IF l[i][1] = "write" /\ l[i][2] = f THEN i
    ELSE FirstWrite(l, f, i + 1)

\* C19: whatever the three flags held before, a start_rx that succeeded has
\* unmasked and cleared all three before it switched to single reception;
\* a complete_rx made before the radio raises a flag returns Ok(None), and
\* one made after the radio raised RX done alone returns the packet.
C19_FreshAttempt ==
    [][/\ (IsCall /\ ret'.op = "start_rx" /\ ret'.err = "none") =>
            /\ \A i \in 1..3 : regs'[RxFlags[i]] = 0 /\ regs'[RxMasks[i]] = 0
            /\ regs'["RegOpModeMode"] = REG_OPMODE_MODE_RXSINGLE
            /\ FirstWrite(log', "RegOpModeMode", 1) = Len(log')
            /\ \A i \in 1..3 :
                  /\ FirstWrite(log', RxFlags[i], 1) \in 1..(Len(log') - 1)
                  /\ FirstWrite(log', RxMasks[i], 1) \in 1..(Len(log') - 1)
       /\ (IsCall /\ ret'.op = "complete_rx" /\ ret'.failAt = 0) =>
            /\ regs["RegOpModeMode"] = REG_OPMODE_MODE_RXSINGLE =>
                  (ret'.err = "none" /\ ret'.kind = "none")
            /\ (ret.op = "start_rx" /\ ret.err = "none" /\ PacketReady(regs)) =>
                  (ret'.err = "none" /\ ret'.kind = "some" /\ ret'.val = regs["RegRxNbBytes"])
       /\ (/\ ret' = ret
           /\ ret.op = "start_rx"
           /\ ret.err = "none"
           /\ regs["RegOpModeMode"] = REG_OPMODE_MODE_RXSINGLE
           /\ regs'["RegOpModeMode"] = REG_OPMODE_MODE_STANDBY
           /\ regs'["RegIrqFlagsRxDone"] = 1
           /\ regs'["RegIrqFlagsRxTimeout"] = regs["RegIrqFlagsRxTimeout"]
           /\ regs'["RegIrqFlagsPayloadCrcError"] = regs["RegIrqFlagsPayloadCrcError"])
            => PacketReady(regs')]_vars

C19_Witness ==
    /\ ret.op = "complete_rx"
    /\ ret.err = "none"
    /\ ret.kind = "some"
    /\ ret.val = 1
    /\ buf = <<RxBytes(0)>>

-----------------------------------------------------------------------------
(* Transmit: the writes of start_tx                                        *)

-----------------------------------------------------------------------------
(* The polls change nothing they read                                      *)

\* No write among the transactions of the log l
NoWrite(l) == \A i \in 1..Len(l) : l[i][1] # "write"

-----------------------------------------------------------------------------
(* Frequency: 868.1 MHz set and read back                                  *)

\* frequency() returned, and the last set_frequency that succeeded before
\* it set 868,100,000 Hz
ReadBack868 ==
    /\ ret.op = "frequency"
    /\ ret.err = "none"
    /\ last.freq = Hz(868, 100000)

\* C23 as stated: 868,100,000 Hz set with set_frequency is read back by
\* frequency() as a value from 868,099,987 Hz to 868,100,048 Hz.
C23_Interval ==
    ReadBack868 =>
        /\ ~BigLess(ret.val, Hz(868, 99987))
        /\ ~BigLess(Hz(868, 100048), ret.val)

\* C23: 868,100,000 Hz set with set_frequency is stored as the raw value
\* 14,222,986 and read back by frequency() as 868,099,950 Hz.
C23_ReadBack ==
    ReadBack868 =>
        /\ regs["RegFrMsb"] = 217
        /\ regs["RegFrMid"] = 6
        /\ regs["RegFrLsb"] = 138
        /\ ret.val = Hz(868, 99950)

C23_Witness ==
    /\ ReadBack868
    /\ ToInt(BigSub(last.freq, ret.val)) = 50

=============================================================================
